---------------------------- MODULE Spec2Model ----------------------------
(***************************************************************************)
(* Model of app/github_client.py: GitHubClient.get_file_content,           *)
(* create_or_update_file, append_to_file and upload_image, run by          *)
(* concurrent clients against one path of one repository branch.           *)
(*                                                                         *)
(* The remote is the GitHub contents API as the client uses it: a GET      *)
(* answers 404 or the file with its sha; a PUT is a compare-and-swap on    *)
(* the sha and answers 409/422 on a mismatch.  Network failures, 5xx       *)
(* answers, answers lost after the remote has committed, and conflicts     *)
(* caused by contention outside the path are injected faults.              *)
(***************************************************************************)
EXTENDS Integers, Sequences, FiniteSets, TLC

\* ---------------------------------------------------------------- bounds
MaxLen == 2          \* longest text appended / longest initial file content
MaxAttempts == 3     \* largest max_retries a direct caller passes
MaxFaults == 3       \* injected faults in one behaviour of a single client
MaxRaceFaults == 1   \* injected faults in one behaviour of two racing clients
MaxImages == 2       \* most images of one tweet
MaxText == 3         \* longest tweet text given to the formatter alone
MaxCalls == 3        \* most append_to_file calls one caller makes in a row

DefaultMaxRetries == 5

NoteLimit == 500

Procs == {1, 2}

NL == "\n"
Alphabet == {"a", "b", NL}

\* ------------------------------------------------------------ encodings
\* str.encode('utf-8') / bytes.decode('utf-8') on the (ASCII) alphabet.
CodeOf(ch) == CASE ch = "a" -> 97 [] ch = "b" -> 98 [] ch = NL -> 10

CharOf(b) == CHOOSE ch \in Alphabet : CodeOf(ch) = b

Utf8Encode(t) == [i \in 1..Len(t) |-> CodeOf(t[i])]

Utf8Decode(bs) == [i \in 1..Len(bs) |-> CharOf(bs[i])]

\* Bytes that bytes.decode('utf-8') accepts; it raises UnicodeDecodeError otherwise.
Decodable(bs) == \A i \in 1..Len(bs) : \E ch \in Alphabet : CodeOf(ch) = bs[i]

\* base64.b64encode: three bytes to four sextets, 64 standing for the pad '='.
RECURSIVE B64Encode(_)
B64Encode(bs) ==
    IF Len(bs) = 0 THEN << >>
    ELSE IF Len(bs) = 1 THEN
        << bs[1] \div 4, (bs[1] % 4) * 16, 64, 64 >>
    ELSE IF Len(bs) = 2 THEN
        << bs[1] \div 4, (bs[1] % 4) * 16 + bs[2] \div 16, (bs[2] % 16) * 4, 64 >>
    ELSE
        << bs[1] \div 4, (bs[1] % 4) * 16 + bs[2] \div 16,
           (bs[2] % 16) * 4 + bs[3] \div 64, bs[3] % 64 >>
        \o B64Encode(SubSeq(bs, 4, Len(bs)))

\* base64.b64decode: the inverse, four sextets to up to three bytes.
RECURSIVE B64Decode(_)
B64Decode(ss) ==
    IF Len(ss) < 4 THEN << >>
    ELSE
        LET b1 == ss[1] * 4 + ss[2] \div 16
            b2 == (ss[2] % 16) * 16 + ss[3] \div 4
            b3 == (ss[3] % 4) * 64 + ss[4]
            rest == B64Decode(SubSeq(ss, 5, Len(ss)))
        IN  IF ss[3] = 64 THEN << b1 >> \o rest
            ELSE IF ss[4] = 64 THEN << b1, b2 >> \o rest
            ELSE << b1, b2, b3 >> \o rest

\* ------------------------------------------------------------ input sets
RECURSIVE SeqsUpTo(_, _)
SeqsUpTo(S, n) ==
    IF n = 0 THEN { << >> }
    ELSE LET shorter == SeqsUpTo(S, n - 1)
         IN  shorter \cup { Append(s, x) : s \in { t \in shorter : Len(t) = n - 1 }, x \in S }

Texts == SeqsUpTo(Alphabet, MaxLen)

\* Payloads of direct writes and uploads: raw bytes (a PNG header prefix, a text).
Payloads == { << 137, 80 >>, Utf8Encode(<< "b", NL >>) }

\* What two racing clients append, and the max_retries they pass on direct writes.
RaceTexts == { << "a" >>, << "b", NL >> }

RaceAttempts == {1, 2}

Absent == [present |-> FALSE, content |-> << >>, sha |-> 0]

VARIABLES
    file,        \* the remote file: [present, content (bytes), sha]
    commits,     \* commits accepted by the remote for the path so far
    lastHash,    \* expectedHash carried by the latest accepted write (0: none)
    faults,      \* injected faults so far
    budget,      \* injected faults the behaviour may hold
    st,          \* per client: position and locals of its running call
    h,           \* the handler: position, request, locals, calls made, response
    appended     \* the texts a sequential caller has passed to append_to_file

vars == << file, commits, lastHash, faults, budget, st, h, appended >>

\* ------------------------------------------------------------ the handler
\* dict.get(key, default) and os.environ.get(name, default).
Get(d, key, default) == IF key \in DOMAIN d THEN d[key] ELSE default

\* The dicts that hold values of vals under some of the keys.
Dicts(keys, vals) == UNION { [D -> vals] : D \in SUBSET keys }

\* Python's None, and what "not v" takes for false.
None == "<None>"

Falsy(v) == v \in { None, "" }

\* A text is held as what str.strip() keeps of it (core) and the number of
\* surrounding whitespace characters (pad); a note's core is its length.
Text(core, pad) == [core |-> core, pad |-> pad]

Strip(t) == [t EXCEPT !.pad = 0]

NoteLen(t) == t.core + t.pad

Contains(s, t) == \E i \in 1..(Len(s) - Len(t) + 1) : SubSeq(s, i, i + Len(t) - 1) = t

LikedMarker == << "/", "l", "i", "k", "e", "d" >>

PathIngest == << "/", "i", "n", "g", "e", "s", "t" >>

PathLikedNested == << "/", "v", "1", "/", "l", "i", "k", "e", "d", "/", "x" >>

\* URLs of a request body, and what validate_request and extract_tweet_id
\* make of them: the six https prefixes, and the /<user>/status/<digits> form.
UrlForeign == "https://example.com/u/status/1"

UrlInsecure == "http://twitter.com/u/status/1"

UrlProfile == "https://x.com/u"

UrlStatus == "https://x.com/u/status/1"

HasAllowedPrefix(url) == url \in { UrlProfile, UrlStatus }

HasTweetId(url) == url \in { UrlInsecure, UrlStatus }

Urls == { Text("", 1), Text(UrlForeign, 0), Text(UrlInsecure, 0), Text(UrlProfile, 0),
          Text(UrlStatus, 1) }

Notes == { Text(0, 1), Text(NoteLimit, 1), Text(NoteLimit + 1, 0) }

Bodies == { [json |-> "malformed"], [json |-> "array"] }
              \cup { [json |-> "object", obj |-> o] :
                       o \in { [url |-> u] : u \in Urls }
                             \cup { [note |-> n] : n \in Notes }
                             \cup { [url |-> Text(UrlStatus, 0), note |-> n] : n \in Notes } }

ValidBody == [json |-> "object", obj |-> [url |-> Text(UrlStatus, 1)]]

Headers == Dicts({ "x-api-key" }, { "k", "x" }) \cup Dicts({ "X-Api-Key" }, { "k" })
               \cup { [n \in { "x-api-key", "X-Api-Key" } |-> IF n = "x-api-key" THEN "x" ELSE "k"] }

Secrets == Dicts({ "API_KEY" }, { "k", "" })

Routes == Dicts({ "rawPath" }, { PathIngest, LikedMarker, PathLikedNested })
              \cup Dicts({ "path" }, { PathIngest, LikedMarker })
              \cup { [n \in { "rawPath", "path" } |-> IF n = "rawPath" THEN a ELSE b] :
                       a \in { PathIngest, LikedMarker }, b \in { PathIngest, LikedMarker } }

\* The process environment: no override, or the vault paths overridden.
Envs == { << >>,
          [n \in { "VAULT_LIKED_PATH", "VAULT_ASSETS_DIR" } |->
              IF n = "VAULT_LIKED_PATH" THEN << "Inbox", "liked.md" >> ELSE << "img" >>] }

Event(secrets, headers, body, route) ==
    [secrets |-> secrets, headers |-> headers, body |-> body, route |-> route]

\* The requests the handler is given: every key configuration with a valid and
\* an invalid body, every body with and without a matching key, every route.
Events ==
    { Event(s, hd, b, << >>) : s \in Secrets, hd \in Headers,
                               b \in { ValidBody, [json |-> "malformed"] } }
    \cup { Event(s, [n \in { "x-api-key" } |-> "k"], b, << >>) :
             s \in { << >>, [n \in { "API_KEY" } |-> "k"] }, b \in Bodies }
    \cup { Event(<< >>, << >>, ValidBody, r) : r \in Routes }

Months == { "2024-12", "2025-01" }

Backslash == "\\"

\* The tweets fetch_tweet returns: it raises when the tweet has no text.
Tweets == { [text |-> << "t", Backslash, "n", "t" >>, n |-> k] : k \in 0..MaxImages }

\* The clock does not run backwards.
NotBefore(month) == { m \in Months : ~(month = "2025-01" /\ m = "2024-12") }

UploadResults == { "ok", "ConflictExceeded", "WriteFailed" }

AppendResults == { "ok", "ConflictExceeded", "WriteFailed", "FetchError", "DecodeError" }

NoResponse == [status |-> 0, message |-> "", hasCommits |-> FALSE, commits |-> << >>]

NoEntry == [date |-> << >>, title |-> "", url |-> "", note |-> "", text |-> << >>,
            images |-> << >>]

HIdle == [pc |-> "idle", event |-> Event(<< >>, << >>, ValidBody, << >>), env |-> << >>,
          entryType |-> "none", n |-> 0, month |-> "", i |-> 0,
          entry |-> NoEntry, content |-> << >>,
          commits |-> << >>, calls |-> << >>, written |-> { }, resp |-> NoResponse]

\* ------------------------------------------------------------ the client
Idle == [pc |-> "idle", op |-> "none", text |-> << >>, data |-> << >>, content |-> << >>,
         message |-> "", sha |-> 0, max |-> 0, attempt |-> 0,
         result |-> "none", reuse |-> FALSE, log |-> << >>]

Existing(t) == [present |-> TRUE, content |-> Utf8Encode(t), sha |-> 1]

Start(files, n) ==
    /\ file \in files
    /\ commits = IF file.present THEN 1 ELSE 0
    /\ lastHash = 0
    /\ faults = 0
    /\ budget = n
    /\ st = [p \in Procs |-> Idle]
    /\ h = HIdle
    /\ appended = << >>

\* Two clients race on a path that is absent or holds one unterminated line.
Init == Start({ Absent, Existing(<< "a" >>) }, MaxRaceFaults)

\* One client works alone on a path that is absent or holds any short text.
InitSolo == Start({ Absent } \cup { Existing(t) : t \in Texts }, MaxFaults)

\* ------------------------------------------------------------ the remote
\* GET /contents/{path}: the file's base64 content and sha, or 404.
Response(f) ==
    IF f.present
    THEN [status |-> 200, content |-> B64Encode(f.content), sha |-> f.sha]
    ELSE [status |-> 404, content |-> << >>, sha |-> 0]

\* PUT /contents/{path}: accepted when the request's sha is the file's current
\* one (no sha for a path that does not exist).
RemoteAccepts(f, sha) == IF f.present THEN sha = f.sha ELSE sha = 0

\* The status of an accepted or rejected PUT.
PutStatus(f, sha) ==
    IF RemoteAccepts(f, sha) THEN (IF f.present THEN 200 ELSE 201)
    ELSE IF sha = 0 THEN 422 ELSE 409

\* The file after the remote has committed the request body {content: base64}.
Committed(body, n) == [present |-> TRUE, content |-> B64Decode(body), sha |-> n + 1]

\* --------------------------------------------------------------- client
EndsWithNL(t) == Len(t) > 0 /\ t[Len(t)] = NL

\* Mutant: a file without content is taken for a missing one.
FileInfo_EmptyIsAbsent(resp) ==
    IF resp.status = 404 \/ resp.content = << >>
    THEN [found |-> FALSE, content |-> << >>, sha |-> 0]
    ELSE [found |-> TRUE, content |-> resp.content, sha |-> resp.sha]

\* get_file_content: None on 404, else the response's json.
FileInfo(resp) ==
    IF resp.status = 404
    THEN [found |-> FALSE, content |-> << >>, sha |-> 0]
    ELSE [found |-> TRUE, content |-> resp.content, sha |-> resp.sha]

\* Mutant: the text is written over what the path holds.
NewContent_DropsExisting(info, text) ==
    IF ~EndsWithNL(text) THEN Append(text, NL) ELSE text

\* Mutant: the final newline is added whether or not the text ends with one.
NewContent_AlwaysTerminated(info, text) ==
    LET existing == Utf8Decode(B64Decode(info.content))
        padded == IF existing # << >> /\ ~EndsWithNL(existing)
                  THEN Append(existing, NL) ELSE existing
        merged == IF info.found THEN padded \o text ELSE text
    IN  Append(merged, NL)

\* Mutant: the existing content is not terminated before the text is added.
NewContent_NoSeparator(info, text) ==
    LET existing == Utf8Decode(B64Decode(info.content))
        merged == IF info.found THEN existing \o text ELSE text
    IN  IF ~EndsWithNL(merged) THEN Append(merged, NL) ELSE merged

\* Mutant: the final newline is forgotten.
NewContent_Unterminated(info, text) ==
    LET existing == Utf8Decode(B64Decode(info.content))
        padded == IF existing # << >> /\ ~EndsWithNL(existing)
                  THEN Append(existing, NL) ELSE existing
    IN  IF info.found THEN padded \o text ELSE text

\* append_to_file, the text it submits.
NewContent(info, text) ==
    LET existing == Utf8Decode(B64Decode(info.content))
        padded == IF existing # << >> /\ ~EndsWithNL(existing)
                  THEN Append(existing, NL) ELSE existing
        merged == IF info.found THEN padded \o text ELSE text
    IN  IF ~EndsWithNL(merged) THEN Append(merged, NL) ELSE merged

\* Mutant: the upload is merged with what the path holds.
UploadContent_Merged(info, data) == B64Decode(info.content) \o data

\* upload_image, the content it submits: the caller's bytes.
UploadContent(info, data) == data

\* Mutant: no sha is passed on, whatever the read found.
ShaOf_None(info) == 0

\* append_to_file / upload_image, the sha they pass on.
ShaOf(info) == IF info.found THEN info.sha ELSE 0

IsConflict(status) == status \in {409, 422}

\* Mutants: the retry test off by one, either way.
AttemptsRemain_OneMore(attempt, max) == attempt < max

AttemptsRemain_OneLess(attempt, max) == attempt < max - 2

\* create_or_update_file: attempt < max_retries - 1.
AttemptsRemain(attempt, max) == attempt < max - 1

Backoff(attempt) == 2 ^ attempt

\* One entry of a call's log of remote requests and sleeps; res is the HTTP
\* status the client saw (0: none, the request raised), commit whether the
\* remote committed the request.
Ev(k, att, sha, content, message, res, commit, secs) ==
    [k |-> k, att |-> att, sha |-> sha, content |-> content, message |-> message,
     res |-> res, commit |-> commit, secs |-> secs]

PutEv(s, res, commit) == Ev("put", s.attempt, s.sha, s.content, s.message, res, commit, 0)

SleepEv(s) == Ev("sleep", s.attempt, 0, << >>, "", 0, FALSE, Backoff(s.attempt))

ReadEv(s, res, info) == Ev("read", s.attempt, info.sha, info.content, "", res, FALSE, 0)

NoInfo == [found |-> FALSE, content |-> << >>, sha |-> 0]

\* Mutant: the except clause retries without backing off.
OnRequestException_NoSleep(s, evs) ==
    IF AttemptsRemain(s.attempt, s.max)
    THEN [s EXCEPT !.log = s.log \o evs, !.attempt = s.attempt + 1, !.pc = "put"]
    ELSE [s EXCEPT !.log = s.log \o evs, !.result = "WriteFailed", !.pc = "done"]

\* create_or_update_file, the except clause: sleep and go round again, or re-raise.
OnRequestException(s, evs) ==
    IF AttemptsRemain(s.attempt, s.max)
    THEN [s EXCEPT !.log = s.log \o evs \o << SleepEv(s) >>,
                   !.attempt = s.attempt + 1, !.pc = "put"]
    ELSE [s EXCEPT !.log = s.log \o evs, !.result = "WriteFailed", !.pc = "done"]

\* Mutant: the conflict branch backs off before it gives up.
OnConflict_SleepsBeforeRaise(s, evs) ==
    IF AttemptsRemain(s.attempt, s.max)
    THEN [s EXCEPT !.log = s.log \o evs \o << SleepEv(s) >>, !.pc = "reread"]
    ELSE [s EXCEPT !.log = s.log \o evs \o << SleepEv(s) >>,
                   !.result = "ConflictExceeded", !.pc = "done"]

\* create_or_update_file, the conflict branch up to the re-read.
OnConflict(s, evs) ==
    IF AttemptsRemain(s.attempt, s.max)
    THEN [s EXCEPT !.log = s.log \o evs \o << SleepEv(s) >>, !.pc = "reread"]
    ELSE [s EXCEPT !.log = s.log \o evs, !.result = "ConflictExceeded", !.pc = "done"]

\* create_or_update_file, after the re-read: the sha is refreshed only when the
\* file was found; otherwise raise_for_status() raises on the 409/422 response.
OnReread(s, info) ==
    IF info.found
    THEN [s EXCEPT !.log = s.log \o << ReadEv(s, 200, info) >>,
                   !.sha = info.sha, !.attempt = s.attempt + 1, !.pc = "put"]
    ELSE OnRequestException(s, << ReadEv(s, 404, info) >>)

Remote == << file, commits, lastHash >>

\* The sha of a version the path no longer holds or never held.
StaleSha == -1

\* The shas a caller of create_or_update_file may pass: none, one the path
\* has had, or a stale one.
CallerShas == (0..commits) \cup { StaleSha }

\* A caller invokes append_to_file(path, text, message).
StartAppend(p, text) ==
    /\ st[p].pc = "idle"
    /\ st' = [st EXCEPT ![p] = [Idle EXCEPT !.pc = "append_read", !.op = "append",
                                           !.text = text, !.message = "append"]]
    /\ UNCHANGED << Remote, faults, budget >>

\* A caller invokes upload_image(path, image_data, message).
StartUpload(p, data) ==
    /\ st[p].pc = "idle"
    /\ st' = [st EXCEPT ![p] = [Idle EXCEPT !.pc = "upload_read", !.op = "upload", !.data = data,
                                           !.content = data, !.message = "upload"]]
    /\ UNCHANGED << Remote, faults, budget >>

\* A caller invokes create_or_update_file(path, content, message, sha, max_retries).
StartWrite(p, content, sha, max) ==
    /\ st[p].pc = "idle"
    /\ st' = [st EXCEPT ![p] = [Idle EXCEPT !.pc = "put", !.op = "write",
                                           !.content = content, !.message = "update",
                                           !.sha = sha, !.max = max,
                                           !.reuse = (sha # 0 /\ sha = lastHash)]]
    /\ UNCHANGED << Remote, faults, budget >>

\* A caller invokes get_file_content(path).
StartRead(p) ==
    /\ st[p].pc = "idle"
    /\ st' = [st EXCEPT ![p] = [Idle EXCEPT !.pc = "read", !.op = "read"]]
    /\ UNCHANGED << Remote, faults, budget >>

\* Mutant: a read of a path that does not exist creates an empty file there.
ReadFile_CreatesMissing(p) ==
    LET s == st[p]
        info == FileInfo(Response(file))
    IN  /\ s.pc = "read"
        /\ st' = [st EXCEPT ![p] =
                    [s EXCEPT !.log = << ReadEv(s, IF info.found THEN 200 ELSE 404, info) >>,
                              !.sha = info.sha, !.content = info.content,
                              !.result = IF info.found THEN "found" ELSE "absent",
                              !.pc = "done"]]
        /\ file' = IF file.present THEN file ELSE [present |-> TRUE, content |-> << >>, sha |-> 1]
        /\ commits' = IF file.present THEN commits ELSE 1
        /\ UNCHANGED << lastHash, faults, budget >>

\* get_file_content answered by the remote: one GET, None on 404, else the
\* file's content and sha.
ReadFile(p) ==
    LET s == st[p]
        info == FileInfo(Response(file))
    IN  /\ s.pc = "read"
        /\ st' = [st EXCEPT ![p] =
                    [s EXCEPT !.log = << ReadEv(s, IF info.found THEN 200 ELSE 404, info) >>,
                              !.sha = info.sha, !.content = info.content,
                              !.result = IF info.found THEN "found" ELSE "absent",
                              !.pc = "done"]]
        /\ UNCHANGED << Remote, faults, budget >>

\* append_to_file: the read, the merge and the call of create_or_update_file;
\* existing bytes that are no text make decode('utf-8') raise.
AppendRead(p) ==
    LET s == st[p]
        info == FileInfo(Response(file))
        read == << ReadEv(s, IF info.found THEN 200 ELSE 404, info) >>
    IN  /\ s.pc = "append_read"
        /\ st' = [st EXCEPT ![p] =
                    IF Decodable(B64Decode(info.content))
                    THEN [s EXCEPT !.log = read,
                                   !.content = Utf8Encode(NewContent(info, s.text)),
                                   !.sha = ShaOf(info), !.max = DefaultMaxRetries,
                                   !.pc = "put"]
                    ELSE [s EXCEPT !.log = read, !.result = "DecodeError", !.pc = "done"]]
        /\ UNCHANGED << Remote, faults, budget >>

\* upload_image: the read and the call of create_or_update_file.
UploadRead(p) ==
    LET s == st[p]
        info == FileInfo(Response(file))
    IN  /\ s.pc = "upload_read"
        /\ st' = [st EXCEPT ![p] =
                    [s EXCEPT !.log = << ReadEv(s, IF info.found THEN 200 ELSE 404, info) >>,
                              !.content = UploadContent(info, s.data),
                              !.sha = ShaOf(info), !.max = DefaultMaxRetries, !.pc = "put"]]
        /\ UNCHANGED << Remote, faults, budget >>

\* get_file_content fails (transport, or a status other than 200 and 404): it
\* logs and re-raises; append_to_file and upload_image let the error through.
FirstReadFails(p) ==
    LET s == st[p]
    IN  /\ s.pc \in {"read", "append_read", "upload_read"}
        /\ faults < budget
        /\ faults' = faults + 1
        /\ st' = [st EXCEPT ![p] =
                    [s EXCEPT !.log = << ReadEv(s, 0, NoInfo) >>,
                              !.result = "FetchError", !.pc = "done"]]
        /\ UNCHANGED << Remote, budget >>

\* A PUT the remote accepts and answers 200/201: the call returns.
PutAccepted(p) ==
    LET s == st[p]
        status == PutStatus(file, s.sha)
    IN  /\ s.pc = "put"
        /\ RemoteAccepts(file, s.sha)
        /\ ~IsConflict(status)
        /\ file' = Committed(B64Encode(s.content), commits)
        /\ commits' = commits + 1
        /\ lastHash' = s.sha
        /\ st' = [st EXCEPT ![p] =
                    [s EXCEPT !.log = Append(s.log, PutEv(s, status, TRUE)),
                              !.result = "ok", !.pc = "done"]]
        /\ UNCHANGED << faults, budget >>

\* A PUT answered 409/422: the sha does not match, or the branch moved under
\* the commit for a reason outside the path (an injected fault).
PutConflict(p) ==
    LET s == st[p]
        injected == RemoteAccepts(file, s.sha)
        status == IF injected THEN 409 ELSE PutStatus(file, s.sha)
    IN  /\ s.pc = "put"
        /\ injected => faults < budget
        /\ faults' = IF injected THEN faults + 1 ELSE faults
        /\ IsConflict(status)
        /\ st' = [st EXCEPT ![p] = OnConflict(s, << PutEv(s, status, FALSE) >>)]
        /\ UNCHANGED << Remote, budget >>

\* A PUT that fails in transport or is answered 5xx: nothing is committed.
PutTransient(p) ==
    LET s == st[p]
    IN  /\ s.pc = "put"
        /\ faults < budget
        /\ faults' = faults + 1
        /\ st' = [st EXCEPT ![p] = OnRequestException(s, << PutEv(s, 500, FALSE) >>)]
        /\ UNCHANGED << Remote, budget >>

\* A PUT the remote commits, whose answer never arrives (the 30 s timeout).
PutLost(p) ==
    LET s == st[p]
    IN  /\ s.pc = "put"
        /\ RemoteAccepts(file, s.sha)
        /\ faults < budget
        /\ faults' = faults + 1
        /\ file' = Committed(B64Encode(s.content), commits)
        /\ commits' = commits + 1
        /\ lastHash' = s.sha
        /\ st' = [st EXCEPT ![p] = OnRequestException(s, << PutEv(s, 0, TRUE) >>)]
        /\ UNCHANGED budget

\* The re-read after a conflict, answered by the remote.
Reread(p) ==
    LET s == st[p]
    IN  /\ s.pc = "reread"
        /\ st' = [st EXCEPT ![p] = OnReread(s, FileInfo(Response(file)))]
        /\ UNCHANGED << Remote, faults, budget >>

\* Mutant: a re-read that fails ends the call with its error.
RereadFails_Aborts(p) ==
    LET s == st[p]
    IN  /\ s.pc = "reread"
        /\ faults < budget
        /\ faults' = faults + 1
        /\ st' = [st EXCEPT ![p] =
                    [s EXCEPT !.log = Append(s.log, ReadEv(s, 0, NoInfo)),
                              !.result = "FetchError", !.pc = "done"]]
        /\ UNCHANGED << Remote, budget >>

\* The re-read after a conflict fails: caught by the except clause of the loop.
RereadFails(p) ==
    LET s == st[p]
    IN  /\ s.pc = "reread"
        /\ faults < budget
        /\ faults' = faults + 1
        /\ st' = [st EXCEPT ![p] = OnRequestException(s, << ReadEv(s, 0, NoInfo) >>)]
        /\ UNCHANGED << Remote, budget >>

\* The steps of a client's running call.
Step(p) ==
    \/ ReadFile(p)
    \/ AppendRead(p)
    \/ UploadRead(p)
    \/ FirstReadFails(p)
    \/ PutAccepted(p)
    \/ PutConflict(p)
    \/ PutTransient(p)
    \/ PutLost(p)
    \/ Reread(p)
    \/ RereadFails(p)

Next ==
    /\ UNCHANGED << h, appended >>
    /\ \E p \in Procs :
        \/ StartRead(p)
        \/ \E text \in RaceTexts : StartAppend(p, text)
        \/ \E data \in Payloads : StartUpload(p, data)
        \/ \E content \in Payloads, sha \in CallerShas, max \in RaceAttempts :
               StartWrite(p, content, sha, max)
        \/ Step(p)

NextSolo ==
    /\ UNCHANGED << h, appended >>
    /\ \/ StartRead(1)
       \/ \E text \in Texts : StartAppend(1, text)
       \/ \E data \in Payloads : StartUpload(1, data)
       \/ \E content \in Payloads, sha \in CallerShas, max \in 1..MaxAttempts :
              StartWrite(1, content, sha, max)
       \/ Step(1)

Spec == Init /\ [][Next]_vars

SpecSolo == InitSolo /\ [][NextSolo]_vars

\* Appends alone, with as many injected faults as one call has retries, so
\* that a call can run out of attempts after a write of its own was lost.
NoteTexts == { << >>, << "a", NL >> }

InitAppend == Start({ Absent } \cup { Existing(t) : t \in NoteTexts \ { << >> } },
                    DefaultMaxRetries - 1)

NextAppend ==
    /\ UNCHANGED << h, appended >>
    /\ \E p \in Procs :
        \/ \E text \in RaceTexts : StartAppend(p, text)
        \/ AppendRead(p)
        \/ FirstReadFails(p)
        \/ PutAccepted(p)
        \/ PutConflict(p)
        \/ PutTransient(p)
        \/ PutLost(p)
        \/ Reread(p)
        \/ RereadFails(p)

SpecAppend == InitAppend /\ [][NextAppend]_vars

\* One caller appends one text after the other to a path that does not exist
\* at first: the next call is made when the one before has returned.
SeqTexts == { << >>, << "a" >>, << "b", NL >>, << NL >> }

AppendNext(text) ==
    /\ Len(appended) < MaxCalls
    /\ st[1].pc = "idle" \/ (st[1].pc = "done" /\ st[1].result = "ok")
    /\ st' = [st EXCEPT ![1] = [Idle EXCEPT !.pc = "append_read", !.op = "append",
                                           !.text = text, !.message = "append"]]
    /\ appended' = Append(appended, text)
    /\ UNCHANGED << Remote, faults, budget, h >>

InitSeq == Start({ Absent }, MaxFaults)

NextSeq ==
    \/ \E text \in SeqTexts : AppendNext(text)
    \/ AppendRead(1) /\ UNCHANGED << h, appended >>
    \/ FirstReadFails(1) /\ UNCHANGED << h, appended >>
    \/ PutAccepted(1) /\ UNCHANGED << h, appended >>
    \/ PutConflict(1) /\ UNCHANGED << h, appended >>
    \/ PutTransient(1) /\ UNCHANGED << h, appended >>
    \/ PutLost(1) /\ UNCHANGED << h, appended >>
    \/ Reread(1) /\ UNCHANGED << h, appended >>
    \/ RereadFails(1) /\ UNCHANGED << h, appended >>

SpecSeq == InitSeq /\ [][NextSeq]_vars

\* Mutant: a request without the header passes the check.
CheckApiKey_MissingPasses(event, expected) ==
    LET provided == Get(event.headers, "x-api-key", Get(event.headers, "X-Api-Key", ""))
    IN  Falsy(expected) \/ provided = "" \/ provided = expected

\* check_api_key.
CheckApiKey(event, expected) ==
    IF Falsy(expected) THEN TRUE
    ELSE Get(event.headers, "x-api-key", Get(event.headers, "X-Api-Key", "")) = expected

Invalid(error) == [kind |-> "invalid", error |-> error]

\* validate_request followed by extract_tweet_id: the ValueError raised, the
\* other exception raised (a body that is no JSON object), or the url and note.
ValidateRequest(event) ==
    LET body == event.body
        url == Strip(Get(body.obj, "url", Text("", 0)))
        note == Strip(Get(body.obj, "note", Text(0, 0)))
    IN  IF body.json = "malformed" THEN Invalid("Invalid JSON in request body")
        ELSE IF body.json # "object" THEN [kind |-> "crash", error |-> "AttributeError"]
        ELSE IF url.core = "" THEN Invalid("URL is required")
        ELSE IF ~HasAllowedPrefix(url.core) THEN Invalid("Invalid Twitter/X URL")
        ELSE IF NoteLen(note) # 0 /\ NoteLen(note) > NoteLimit
             THEN Invalid("Note is too long (max 500 characters)")
        ELSE IF ~HasTweetId(url.core) THEN Invalid("Invalid Twitter/X URL format")
        ELSE [kind |-> "ok", error |-> ""]

\* Mutant: the path is preferred over the rawPath.
GetEntryType_PathFirst(event) ==
    LET path == Get(event.route, "path", Get(event.route, "rawPath", << >>))
    IN  IF Contains(path, LikedMarker) THEN "LIKED" ELSE "BOOK"

\* get_entry_type.
GetEntryType(event) ==
    LET path == Get(event.route, "rawPath", Get(event.route, "path", << >>))
    IN  IF Contains(path, LikedMarker) THEN "LIKED" ELSE "BOOK"

\* lambda_handler, the assets directory and the note path of an entry type.
AssetsDir(env, entryType) ==
    Get(env, IF entryType = "LIKED" THEN "VAULT_LIKED_ASSETS_DIR" ELSE "VAULT_ASSETS_DIR",
             IF entryType = "LIKED" THEN << "Liked", "assets" >> ELSE << "assets" >>)

WishlistPath(env, entryType) ==
    Get(env, IF entryType = "LIKED" THEN "VAULT_LIKED_PATH" ELSE "VAULT_WISHLIST_PATH",
             IF entryType = "LIKED" THEN << "Liked", "tweets.md" >> ELSE << "wishlist.md" >>)

\* ------------------------------------------------------------ the entry
\* Texts are sequences of pieces: single characters of the tweet text, and
\* whole literals or values (a url, a date, a path component) elsewhere.
\* sanitize_text_for_markdown: text.replace('\\n', '\n').
RECURSIVE ReplaceEscaped(_)
ReplaceEscaped(t) ==
    IF t = << >> THEN << >>
    ELSE IF Len(t) >= 2 /\ t[1] = Backslash /\ t[2] = "n"
         THEN << NL >> \o ReplaceEscaped(SubSeq(t, 3, Len(t)))
         ELSE << t[1] >> \o ReplaceEscaped(Tail(t))

\* str.split('\n'): the pieces between the line terminators, empty ones kept.
RECURSIVE SplitLines(_)
SplitLines(t) ==
    IF \A i \in 1..Len(t) : t[i] # NL THEN << t >>
    ELSE LET i == CHOOSE k \in 1..Len(t) : t[k] = NL /\ \A j \in 1..(k - 1) : t[j] # NL
         IN  << SubSeq(t, 1, i - 1) >> \o SplitLines(SubSeq(t, i + 1, Len(t)))

\* ' '.join(line.split()): no blank at either end, one between words.
RECURSIVE CollapseBlanks(_)
CollapseBlanks(line) ==
    IF line = << >> THEN << >>
    ELSE IF line[1] = " " THEN CollapseBlanks(Tail(line))
    ELSE IF Len(line) >= 2 /\ line[2] = " "
         THEN (IF \E i \in 2..Len(line) : line[i] # " "
               THEN << line[1], " " >> \o CollapseBlanks(Tail(line))
               ELSE << line[1] >>)
         ELSE << line[1] >> \o CollapseBlanks(Tail(line))

\* '\n'.join(lines).
RECURSIVE JoinLines(_)
JoinLines(lines) ==
    IF lines = << >> THEN << >>
    ELSE IF Len(lines) = 1 THEN lines[1]
    ELSE lines[1] \o << NL >> \o JoinLines(Tail(lines))

NonEmpty(line) == line # << >>

\* sanitize_text_for_markdown.
SanitizeText(text) ==
    LET lines == SplitLines(ReplaceEscaped(text))
        cleaned == [j \in 1..Len(lines) |-> CollapseBlanks(lines[j])]
    IN  JoinLines(SelectSeq(cleaned, NonEmpty))

\* A path as text: its components joined by '/'.
RECURSIVE PathText(_)
PathText(p) ==
    IF Len(p) <= 1 THEN p ELSE << p[1], "/" >> \o PathText(Tail(p))

\* generate_image_path(date, filename, assets_dir), as components.
GenerateImagePath(month, filename, assetsDir) == assetsDir \o << month, filename >>

\* format_date: YYYY-MM-DD; the clock is read to the month.
FormatDate(month) == << month, "-01" >>

\* format_wishlist_entry, with the month datetime.now() gives when it runs.
FormatWishlistEntry(entry, entryType, env, now) ==
    LET main == << "- " >> \o entry.date \o << " [", entry.title, "](", entry.url, ")" >>
                    \o (IF entry.note # "" THEN << " note: ", entry.note >> ELSE << >>)
        text == << "  - text: " >> \o SanitizeText(entry.text)
        original == << "  - original: ", entry.url >>
        images == [j \in 1..Len(entry.images) |->
                      << "    - [[" >>
                          \o PathText(GenerateImagePath(now, entry.images[j],
                                                        AssetsDir(env, entryType)))
                          \o << "]]" >>]
    IN  JoinLines(<< main, text, original >>
                      \o (IF entry.images # << >> THEN << << "  - images:" >> >> \o images
                          ELSE << >>))

\* The entries format_wishlist_entry is given.
TextAlphabet == { "t", " ", Backslash, "n", NL }

TweetTexts == SeqsUpTo(TextAlphabet, MaxText) \ { << >> }

\* Mutant: the file name of an image does not carry its sequence number.
FileNames_NoSequence(n) == [j \in 1..n |-> "1"]

\* _extract_images: the file names of a tweet's images, generate_image_filename
\* of the tweet id and the image's place idx + 1 in the media list.
FileNames(n) == [j \in 1..n |-> ToString(j)]

Entries ==
    { [date |-> FormatDate(m), title |-> "@user", url |-> UrlStatus, note |-> note,
       text |-> t, images |-> FileNames(n)] :
        m \in Months, note \in { "", "a note" }, t \in TweetTexts, n \in 0..MaxImages }

\* ------------------------------------------------------- the handler's steps
\* lambda_handler, the path an image is uploaded to: generate_image_path of
\* current_date, the image's file name and the assets directory.
ImagePath(s, i) == GenerateImagePath(s.month, s.entry.images[i], AssetsDir(s.env, s.entryType))

\* One entry of the handler's log of calls on the outside world.
Call(k, image, path, result) == [k |-> k, image |-> image, path |-> path, result |-> result]

Respond(s, status, message) ==
    [s EXCEPT !.pc = "done",
              !.resp = [status |-> status, message |-> message,
                        hasCommits |-> FALSE, commits |-> << >>]]

\* Whether str(e) of a failed append_to_file contains "Conflict": only the
\* exception create_or_update_file raises after its last conflict does.
MentionsConflict(result) == result = "ConflictExceeded"

\* Mutant: the first image that fails ends the loop.
OnImage_StopsAtFailure(s, outcome) ==
    IF outcome = "DownloadFailed"
    THEN [s EXCEPT !.calls = Append(s.calls, Call("download", s.i, << >>, "failed")),
                   !.i = s.n + 1]
    ELSE [s EXCEPT !.calls = s.calls \o << Call("download", s.i, << >>, "ok"),
                                           Call("upload", s.i, ImagePath(s, s.i), outcome) >>,
                   !.commits = IF outcome = "ok" THEN Append(s.commits, ImagePath(s, s.i))
                               ELSE s.commits,
                   !.i = IF outcome = "ok" THEN s.i + 1 ELSE s.n + 1]

\* Mutant: the path of an image is recorded before its upload is known to succeed.
OnImage_RecordsFailed(s, outcome) ==
    IF outcome = "DownloadFailed"
    THEN [s EXCEPT !.calls = Append(s.calls, Call("download", s.i, << >>, "failed")),
                   !.i = s.i + 1]
    ELSE [s EXCEPT !.calls = s.calls \o << Call("download", s.i, << >>, "ok"),
                                           Call("upload", s.i, ImagePath(s, s.i), outcome) >>,
                   !.commits = Append(s.commits, ImagePath(s, s.i)),
                   !.i = s.i + 1]

\* lambda_handler, one round of the image loop: download, upload, record the
\* path; any exception is logged and the loop goes on.
OnImage(s, outcome) ==
    IF outcome = "DownloadFailed"
    THEN [s EXCEPT !.calls = Append(s.calls, Call("download", s.i, << >>, "failed")),
                   !.i = s.i + 1]
    ELSE [s EXCEPT !.calls = s.calls \o << Call("download", s.i, << >>, "ok"),
                                           Call("upload", s.i, ImagePath(s, s.i), outcome) >>,
                   !.commits = IF outcome = "ok" THEN Append(s.commits, ImagePath(s, s.i))
                               ELSE s.commits,
                   !.i = s.i + 1]

\* Mutant: an append failure that is not a conflict leaves the handler as an
\* exception, without a response.
OnAppend_Escapes(s, result, now) ==
    LET path == WishlistPath(s.env, s.entryType)
        called == [s EXCEPT !.calls = Append(s.calls, Call("append", 0, path, result)),
                            !.content = Append(FormatWishlistEntry(s.entry, s.entryType,
                                                                   s.env, now), NL)]
    IN  IF result = "ok"
        THEN [called EXCEPT !.pc = "done", !.commits = Append(s.commits, path),
                            !.resp = [status |-> 200, message |-> "Tweet added to wishlist",
                                      hasCommits |-> TRUE,
                                      commits |-> Append(s.commits, path)]]
        ELSE IF MentionsConflict(result)
        THEN Respond(called, 409, "Concurrent update conflict, please retry")
        ELSE [called EXCEPT !.pc = "raised"]

\* lambda_handler, the append and the response that follows it.
OnAppend(s, result, now) ==
    LET path == WishlistPath(s.env, s.entryType)
        called == [s EXCEPT !.calls = Append(s.calls, Call("append", 0, path, result)),
                            !.content = Append(FormatWishlistEntry(s.entry, s.entryType,
                                                                   s.env, now), NL)]
    IN  IF result = "ok"
        THEN [called EXCEPT !.pc = "done", !.commits = Append(s.commits, path),
                            !.resp = [status |-> 200, message |-> "Tweet added to wishlist",
                                      hasCommits |-> TRUE,
                                      commits |-> Append(s.commits, path)]]
        ELSE IF MentionsConflict(result)
        THEN Respond(called, 409, "Concurrent update conflict, please retry")
        ELSE Respond(called, 500, "Internal server error")

ClientVars == << file, commits, lastHash, faults, budget, st, appended >>

\* An invocation of lambda_handler(event, context).
HReceive(event, env) ==
    /\ h.pc = "idle"
    /\ h' = [HIdle EXCEPT !.pc = "secrets", !.event = event, !.env = env]
    /\ UNCHANGED ClientVars

\* get_secret raises: the outer except clause answers 500.
HSecretsFail ==
    /\ h.pc = "secrets"
    /\ h' = Respond([h EXCEPT !.calls = << Call("secrets", 0, << >>, "failed") >>],
                    500, "Internal server error")
    /\ UNCHANGED ClientVars

\* The secrets are read and the API key is checked.
HCheckKey ==
    LET read == [h EXCEPT !.calls = << Call("secrets", 0, << >>, "ok") >>]
    IN  /\ h.pc = "secrets"
        /\ h' = IF ~CheckApiKey(h.event, Get(h.event.secrets, "API_KEY", None))
                THEN Respond(read, 401, "Unauthorized")
                ELSE [read EXCEPT !.pc = "validate"]
        /\ UNCHANGED ClientVars

\* The request is validated and the entry type determined.
HValidate ==
    LET v == ValidateRequest(h.event)
    IN  /\ h.pc = "validate"
        /\ h' = IF v.kind = "invalid" THEN Respond(h, 400, v.error)
                ELSE IF v.kind = "crash" THEN Respond(h, 500, "Internal server error")
                ELSE [h EXCEPT !.pc = "fetch", !.entryType = GetEntryType(h.event)]
        /\ UNCHANGED ClientVars

\* fetch_tweet raises.
HFetchFails ==
    /\ h.pc = "fetch"
    /\ h' = Respond([h EXCEPT !.calls = Append(h.calls, Call("fetch", 0, << >>, "failed"))],
                    502, "Failed to fetch tweet data")
    /\ UNCHANGED ClientVars

\* lambda_handler, the entry it prepares: the validated url and note, the
\* tweet's text and the file names of its images.
EntryOfTweet(event, tweet, month) ==
    LET note == Strip(Get(event.body.obj, "note", Text(0, 0)))
    IN  [date |-> FormatDate(month), title |-> "@user",
         url |-> Strip(event.body.obj.url).core,
         note |-> IF NoteLen(note) = 0 THEN "" ELSE "a note",
         text |-> tweet.text, images |-> FileNames(tweet.n)]

\* fetch_tweet returns the tweet; the entry is prepared at the current date.
HFetch(tweet, month) ==
    LET fetched == [h EXCEPT !.calls = Append(h.calls, Call("fetch", 0, << >>, "ok"))]
    IN  /\ h.pc = "fetch"
        /\ h' = IF tweet.text = << >> /\ tweet.n = 0
                THEN Respond(fetched, 422, "Tweet has no text or images")
                ELSE [fetched EXCEPT !.pc = "images", !.n = tweet.n, !.month = month,
                                     !.i = 1, !.entry = EntryOfTweet(h.event, tweet, month)]
        /\ UNCHANGED ClientVars

\* Whether the remote committed the write of a call that ended with a result:
\* a call that returned did commit; one that gave up after its last attempt
\* may have had an earlier PUT committed whose answer was lost; one that
\* failed before its first PUT did not.
Written(result) ==
    IF result = "ok" THEN { TRUE }
    ELSE IF result \in { "ConflictExceeded", "WriteFailed" } THEN BOOLEAN
    ELSE { FALSE }

\* One image of the tweet is downloaded and uploaded, or fails.
HImage(outcome, committed) ==
    /\ h.pc = "images"
    /\ h.i <= h.n
    /\ committed \in Written(outcome)
    /\ h' = [OnImage(h, outcome) EXCEPT
                !.written = IF committed THEN h.written \cup { ImagePath(h, h.i) }
                            ELSE h.written]
    /\ UNCHANGED ClientVars

\* The entry is appended to the note and the response returned.
HAppend(result, now, committed) ==
    /\ h.pc = "images"
    /\ h.i > h.n
    /\ now \in NotBefore(h.month)
    /\ committed \in Written(result)
    /\ h' = [OnAppend(h, result, now) EXCEPT
                !.written = IF committed
                            THEN h.written \cup { WishlistPath(h.env, h.entryType) }
                            ELSE h.written]
    /\ UNCHANGED ClientVars

InitHandler == Start({ Absent }, 0)

NextHandler ==
    \/ \E event \in Events, env \in Envs : HReceive(event, env)
    \/ HSecretsFail
    \/ HCheckKey
    \/ HValidate
    \/ HFetchFails
    \/ \E tweet \in Tweets, month \in Months : HFetch(tweet, month)
    \/ \E outcome \in { "DownloadFailed" } \cup UploadResults, committed \in BOOLEAN :
           HImage(outcome, committed)
    \/ \E result \in AppendResults, now \in Months, committed \in BOOLEAN :
           HAppend(result, now, committed)

SpecHandler == InitHandler /\ [][NextHandler]_vars

\* format_wishlist_entry alone, applied to every short entry.
FormatEntry(entry, entryType, env, now) ==
    /\ h.pc = "idle"
    /\ h' = [HIdle EXCEPT !.pc = "formatted", !.entry = entry, !.entryType = entryType,
                          !.env = env, !.month = now,
                          !.content = FormatWishlistEntry(entry, entryType, env, now)]
    /\ UNCHANGED ClientVars

InitFormat == Start({ Absent }, 0)

NextFormat ==
    \E entry \in Entries, entryType \in { "BOOK", "LIKED" }, env \in Envs, now \in Months :
        FormatEntry(entry, entryType, env, now)

SpecFormat == InitFormat /\ [][NextFormat]_vars


\* ------------------------------------------------------------- claims
IsPut(e) == e.k = "put"

IsSleep(e) == e.k = "sleep"

IsRead(e) == e.k = "read"

Puts(p) == SelectSeq(st[p].log, IsPut)

Sleeps(p) == SelectSeq(st[p].log, IsSleep)

\* A conflict answer, a transport failure, an accepted answer, as the client saw them.
SawConflict(e) == IsPut(e) /\ e.res \in {409, 422}

SawError(e) == IsPut(e) /\ e.res \in {0, 500}

SawSuccess(e) == IsPut(e) /\ e.res \in {200, 201}

\* Commits the remote made for requests of p's call.
CommitsBy(p) == Cardinality({ i \in 1..Len(st[p].log) : st[p].log[i].commit })

Done(p) == st[p].pc = "done"

Returned(p) == Done(p) /\ st[p].result = "ok"

\* The path held no file when the behaviour began: every commit is a client's.
InitiallyAbsent == commits = CommitsBy(1) + CommitsBy(2)

Occurrences(c, t) ==
    Cardinality({ i \in 1..(Len(c) - Len(t) + 1) : SubSeq(c, i, i + Len(t) - 1) = t })

\* What get_file_content returned at a logged read.
InfoAt(e) == [found |-> e.res = 200, content |-> e.content, sha |-> e.sha]

\* C1: two append_to_file calls on an initially absent path that have both
\* returned leave a file that contains both appended texts (stated for the
\* behaviours in which no failure is injected, so that every conflict comes
\* from the race, and for two different texts).
C1_BothTextsKept ==
    (/\ InitiallyAbsent
     /\ faults = 0
     /\ st[1].text # st[2].text
     /\ \A p \in Procs : st[p].op = "append" /\ Returned(p))
    => \A p \in Procs : Occurrences(Utf8Decode(file.content), st[p].text) >= 1

\* C2: in append_to_file, a write attempt that follows a re-read submits the
\* merge of the re-read content with the new text, not an earlier payload
\* (stated for the behaviours in which no failure is injected).
C2_RetryRemerges ==
    \A p \in Procs :
        LET log == st[p].log
        IN  (st[p].op = "append" /\ faults = 0) =>
            \A i \in 2..(Len(log) - 1) :
                (/\ IsRead(log[i]) /\ log[i].res = 200
                 /\ Decodable(B64Decode(log[i].content))
                 /\ IsPut(log[i + 1]))
                => log[i + 1].content = Utf8Encode(NewContent(InfoAt(log[i]), st[p].text))

\* C3 as stated: a create_or_update_file call that supplies the hash H of the
\* write accepted just before it fails and leaves the file alone.
C3_SecondCallFails ==
    \A p \in Procs :
        (st[p].reuse /\ Done(p)) => (st[p].result # "ok" /\ CommitsBy(p) = 0)

\* C3 amended: the first write attempt of such a call is never accepted and
\* commits nothing; the call fails with the conflict when that attempt was
\* its only one (max_retries = 1).
C3_FirstAttemptRejected ==
    \A p \in Procs :
        (st[p].reuse /\ Puts(p) # << >>) =>
            LET e == Puts(p)[1]
            IN  /\ ~e.commit
                /\ ~SawSuccess(e)
                /\ (SawConflict(e) /\ st[p].max = 1) =>
                       (Done(p) /\ st[p].result = "ConflictExceeded" /\ CommitsBy(p) = 0)

C3_Witness ==
    \E p \in Procs :
        /\ st[p].reuse /\ st[p].max = 1 /\ Puts(p) # << >>
        /\ SawConflict(Puts(p)[1]) /\ st[p].result = "ConflictExceeded"

\* C4: with max_retries = 1 a conflict on the single attempt ends the call with
\* the conflict error after one PUT, no sleep and no re-read.
C4_SingleAttemptConflict ==
    \A p \in Procs :
        LET log == st[p].log
        IN  (st[p].op = "write" /\ st[p].max = 1 /\ log # << >> /\ SawConflict(log[1]))
            => (Done(p) /\ st[p].result = "ConflictExceeded" /\ Len(log) = 1)

C4_Witness ==
    \E p \in Procs :
        /\ st[p].op = "write" /\ st[p].max = 1 /\ Len(st[p].log) = 1
        /\ SawConflict(st[p].log[1]) /\ st[p].result = "ConflictExceeded"

\* C5: a conflict with attempts remaining is followed, in order, by one sleep of
\* 2^i seconds, the re-read, and the next PUT carrying the re-read hash and the
\* content and message of the first attempt; one conflict and one accepted PUT
\* make two attempts and one sleep.
C5_ConflictThenRereadThenPut ==
    \A p \in Procs :
        LET log == st[p].log
        IN  /\ \A i \in 1..Len(log) :
                (SawConflict(log[i]) /\ log[i].att < st[p].max - 1) =>
                    /\ (i + 1 <= Len(log)) => (IsSleep(log[i + 1]) /\ log[i + 1].secs = 2 ^ log[i].att)
                    /\ (i + 2 <= Len(log)) => IsRead(log[i + 2])
                    /\ (i + 3 <= Len(log)) =>
                           /\ IsPut(log[i + 3])
                           /\ log[i + 3].sha = log[i + 2].sha
                           /\ log[i + 3].content = Puts(p)[1].content
                           /\ log[i + 3].message = Puts(p)[1].message
            /\ (Returned(p) /\ Len(Puts(p)) = 2 /\ SawConflict(Puts(p)[1]))
                   => Len(Sleeps(p)) = 1

\* C6: a call whose every write attempt is answered by a conflict ends with the
\* conflict error after exactly max_retries attempts, none of which committed.
C6_AllConflictsExhaust ==
    \A p \in Procs :
        (/\ Done(p) /\ Puts(p) # << >>
         /\ \A i \in 1..Len(Puts(p)) : SawConflict(Puts(p)[i]))
        => /\ st[p].result = "ConflictExceeded"
           /\ Len(Puts(p)) = st[p].max
           /\ CommitsBy(p) = 0

C6_Witness ==
    \E p \in Procs :
        /\ Done(p) /\ st[p].max = MaxAttempts /\ Len(Puts(p)) = MaxAttempts
        /\ \A i \in 1..Len(Puts(p)) : SawConflict(Puts(p)[i])
        /\ st[p].result = "ConflictExceeded"

\* C7: a PUT that fails in transport with attempts remaining is followed by a
\* sleep of 2^i seconds and the next attempt with the same request; when the
\* last attempt fails so, the error is re-raised after max_retries attempts.
C7_TransientRetried ==
    \A p \in Procs :
        LET log == st[p].log
        IN  /\ \A i \in 1..Len(log) :
                (SawError(log[i]) /\ log[i].att < st[p].max - 1) =>
                    /\ (i + 1 <= Len(log)) => (IsSleep(log[i + 1]) /\ log[i + 1].secs = 2 ^ log[i].att)
                    /\ (i + 2 <= Len(log)) =>
                           /\ IsPut(log[i + 2])
                           /\ log[i + 2].att = log[i].att + 1
                           /\ log[i + 2].sha = log[i].sha
                           /\ log[i + 2].content = log[i].content
                           /\ log[i + 2].message = log[i].message
            /\ (log # << >> /\ SawError(log[Len(log)]) /\ log[Len(log)].att = st[p].max - 1)
                   => (Done(p) /\ st[p].result = "WriteFailed" /\ Len(Puts(p)) = st[p].max)

C7_Witness ==
    \E p \in Procs :
        /\ st[p].result = "WriteFailed" /\ st[p].max = MaxAttempts
        /\ Len(Puts(p)) = MaxAttempts /\ Len(Sleeps(p)) = MaxAttempts - 1
        /\ \A i \in 1..Len(Puts(p)) : SawError(Puts(p)[i])

\* C8: a call that returned made exactly one commit, and no attempt the client
\* saw fail (a conflict, a transport error, a lost answer) made a commit.
C8_OneCommitPerCall ==
    \A p \in Procs :
        /\ Returned(p) => CommitsBy(p) = 1
        /\ \A i \in 1..Len(st[p].log) :
               (IsPut(st[p].log[i]) /\ ~SawSuccess(st[p].log[i])) => ~st[p].log[i].commit

\* An append_to_file call whose first read found no file / found the file, and
\* that has made its first write attempt.
AppendedToAbsent(p) ==
    /\ st[p].op = "append" /\ Len(st[p].log) >= 2
    /\ st[p].log[1].res = 404

AppendedToPresent(p) ==
    /\ st[p].op = "append" /\ Len(st[p].log) >= 2
    /\ st[p].log[1].res = 200

\* C9 as stated: on an absent path the content submitted is the new text
\* followed by one line terminator, with no sha.
C9_TextPlusTerminator ==
    \A p \in Procs :
        AppendedToAbsent(p) =>
            /\ st[p].log[2].content = Utf8Encode(Append(st[p].text, NL))
            /\ st[p].log[2].sha = 0

\* C9 amended: on an absent path the content submitted is the new text itself
\* when it ends with a line terminator, else the new text followed by one; no
\* sha is sent.
C9_TextTerminatedOnce ==
    \A p \in Procs :
        AppendedToAbsent(p) =>
            /\ st[p].log[2].content =
                   Utf8Encode(IF EndsWithNL(st[p].text) THEN st[p].text
                              ELSE Append(st[p].text, NL))
            /\ st[p].log[2].sha = 0

C9_Witness ==
    \E p \in Procs :
        /\ AppendedToAbsent(p) /\ EndsWithNL(st[p].text)
        /\ st[p].log[2].content = Utf8Encode(st[p].text)

IsPrefix(a, b) == Len(a) <= Len(b) /\ SubSeq(b, 1, Len(a)) = a

\* C10: on a present file the content submitted is existing ++ sep ++ text ++
\* term with the read sha, sep being one line terminator exactly when the
\* existing content is non-empty and unterminated, term one line terminator
\* exactly when what precedes it does not end with one; the existing content is
\* a prefix of it, and "a" with "b" gives "a\nb\n".
C10_MergeOnPresent ==
    \A p \in Procs :
        AppendedToPresent(p) =>
            LET existing == Utf8Decode(B64Decode(st[p].log[1].content))
                sep == IF existing # << >> /\ existing[Len(existing)] # NL THEN << NL >> ELSE << >>
                body == existing \o sep \o st[p].text
                term == IF body = << >> \/ body[Len(body)] # NL THEN << NL >> ELSE << >>
                sent == st[p].log[2]
            IN  /\ sent.content = Utf8Encode(body \o term)
                /\ sent.sha = st[p].log[1].sha
                /\ sent.sha # 0
                /\ IsPrefix(Utf8Encode(existing), sent.content)
                /\ (existing = << "a" >> /\ st[p].text = << "b" >>)
                       => sent.content = Utf8Encode(<< "a", NL, "b", NL >>)

C10_Witness ==
    \E p \in Procs :
        /\ AppendedToPresent(p)
        /\ Utf8Decode(B64Decode(st[p].log[1].content)) = << "a" >>
        /\ st[p].text = << "b" >>
        /\ st[p].log[2].content = Utf8Encode(<< "a", NL, "b", NL >>)

\* The line terminators a text ends with.
RECURSIVE TrailingNLs(_)
TrailingNLs(t) ==
    IF EndsWithNL(t) THEN 1 + TrailingNLs(SubSeq(t, 1, Len(t) - 1)) ELSE 0

\* What append_to_file has before it ensures the final newline: the existing
\* text, terminated if it was not, followed by the new text.
Unterminated(p) ==
    LET existing == Utf8Decode(B64Decode(st[p].log[1].content))
        sep == IF existing # << >> /\ existing[Len(existing)] # NL THEN << NL >> ELSE << >>
    IN  IF st[p].log[1].res = 200 THEN existing \o sep \o st[p].text ELSE st[p].text

Appended(p) == AppendedToAbsent(p) \/ AppendedToPresent(p)

C12_UploadReplaces ==
    (st[1].op = "upload" /\ st[1].log # << >> /\ st[1].log[1].res = 200) =>
        /\ Returned(1) => (file.present /\ file.content = st[1].data)
        /\ (Done(1) /\ faults = 0) => Returned(1)

C12_Witness ==
    /\ st[1].op = "upload" /\ Returned(1)
    /\ st[1].log[1].res = 200
    /\ B64Decode(st[1].log[1].content) # << >>
    /\ B64Decode(st[1].log[1].content) # st[1].data
    /\ file.content = st[1].data

\* What the path holds when nothing was committed since the behaviour began.
Untouched ==
    /\ lastHash = 0
    /\ CommitsBy(1) + CommitsBy(2) = 0
    /\ commits = IF file.present THEN 1 ELSE 0
    /\ file.present => file.sha = 1

\* C13: get_file_content returns the absent value exactly when the remote
\* reports that the path does not exist; any other failure propagates after
\* the one request, with no retry and no change of the remote.
C13_AbsentIffNotFound ==
    (st[1].op = "read" /\ Done(1)) =>
        /\ Len(st[1].log) = 1 /\ IsRead(st[1].log[1])
        /\ Untouched
        /\ st[1].result \in {"absent", "found", "FetchError"}
        /\ st[1].result = "absent" <=> (st[1].log[1].res = 404 /\ ~file.present)
        /\ st[1].result = "found" <=> (st[1].log[1].res = 200 /\ file.present)
        /\ st[1].result = "FetchError" <=> st[1].log[1].res = 0
        /\ st[1].result = "found" =>
               /\ st[1].sha = file.sha
               /\ B64Decode(st[1].content) = file.content

C13_Witness ==
    /\ st[1].op = "read" /\ Done(1)
    /\ st[1].result = "absent"
    /\ ~file.present

\* C14: two get_file_content calls on the path with no write in between
\* return the same hash and the same content (or both the absent value), and
\* the reads leave the remote file and its hash as they were.
C14_ReadsAgree ==
    (\A p \in Procs : st[p].op = "read" /\ Done(p) /\ st[p].result # "FetchError") =>
        /\ st[1].result = st[2].result
        /\ st[1].sha = st[2].sha
        /\ st[1].content = st[2].content
        /\ Untouched
        /\ file.present => (st[1].sha = file.sha /\ B64Decode(st[1].content) = file.content)

C14_Witness ==
    /\ \A p \in Procs : st[p].op = "read" /\ Done(p) /\ st[p].result = "found"
    /\ st[1].sha = st[2].sha /\ st[1].sha = 1
    /\ B64Decode(st[1].content) = file.content

\* The places in the handler's log of the calls of one kind.
CallsOf(k) == { j \in 1..Len(h.calls) : h.calls[j].k = k }

Answered == h.pc = "done"

\* C15: whatever images fail to download or upload, the handler attempts the
\* append exactly once, and not before every image has been attempted: it was
\* downloaded and, unless the download failed, its upload was invoked.
C15_AppendOnceAfterImages ==
    /\ Cardinality(CallsOf("append")) <= 1
    /\ \A j \in CallsOf("append") :
           \A i \in 1..h.n :
               \E k \in CallsOf("download") :
                   /\ k < j
                   /\ h.calls[k].image = i
                   /\ h.calls[k].result = "ok" =>
                          /\ k + 1 < j
                          /\ h.calls[k + 1].k = "upload"
                          /\ h.calls[k + 1].image = i
    /\ (Answered /\ \E j \in CallsOf("fetch") : h.calls[j].result = "ok") =>
           Cardinality(CallsOf("append")) = 1

C15_Witness ==
    /\ Answered
    /\ h.n = 2
    /\ \E k \in CallsOf("download") : h.calls[k].image = 1 /\ h.calls[k].result = "failed"
    /\ \E k \in CallsOf("upload") : h.calls[k].image = 2 /\ h.calls[k].result = "WriteFailed"
    /\ CallsOf("upload") = { 5 }
    /\ CallsOf("append") = { Len(h.calls) }

\* C16: when the append fails because the retry budget of
\* create_or_update_file is exhausted, by conflicts or by transport errors,
\* the handler answers 409 'Concurrent update conflict, please retry'.
C16_ExhaustionAnswersRetry ==
    \A j \in CallsOf("append") :
        (Answered /\ h.calls[j].result \in { "ConflictExceeded", "WriteFailed" }) =>
            /\ h.resp.status = 409
            /\ h.resp.message = "Concurrent update conflict, please retry"

\* The request as the claims about lambda_handler speak of it.
KeyConfigured == Get(h.event.secrets, "API_KEY", "") # ""

RequestKey ==
    IF "x-api-key" \in DOMAIN h.event.headers THEN h.event.headers["x-api-key"]
    ELSE IF "X-Api-Key" \in DOMAIN h.event.headers THEN h.event.headers["X-Api-Key"]
    ELSE ""

KeyRejected == KeyConfigured /\ RequestKey # h.event.secrets["API_KEY"]

SecretsRead == h.calls # << >> /\ h.calls[1].result = "ok"

BadJson == h.event.body.json = "malformed"

UrlMissing ==
    /\ h.event.body.json = "object"
    /\ "url" \notin DOMAIN h.event.body.obj \/ h.event.body.obj.url.core = ""

UrlNotTwitter ==
    /\ h.event.body.json = "object"
    /\ "url" \in DOMAIN h.event.body.obj
    /\ h.event.body.obj.url.core = UrlForeign

\* The note as sent is longer than 500 characters / is so without the
\* whitespace around it.
NoteTooLong ==
    /\ h.event.body.json = "object"
    /\ "note" \in DOMAIN h.event.body.obj
    /\ h.event.body.obj.note.core + h.event.body.obj.note.pad > 500

StrippedNoteTooLong ==
    /\ h.event.body.json = "object"
    /\ "note" \in DOMAIN h.event.body.obj
    /\ h.event.body.obj.note.core > 500

KeyBeforeValidation(rejects) ==
    (Answered /\ SecretsRead) =>
        /\ KeyRejected => (h.resp.status = 401 /\ h.resp.message = "Unauthorized")
        /\ (~KeyRejected /\ rejects) => h.resp.status = 400
        /\ h.resp.status \in { 400, 401 } =>
               (CallsOf("fetch") \cup CallsOf("download") \cup CallsOf("upload")
                    \cup CallsOf("append") = { })
        /\ ~KeyConfigured => h.resp.status # 401

\* C18 as stated: 401 'Unauthorized' when a key is configured and the
\* request's key differs or is missing; otherwise 400 when the URL is missing
\* or not a Twitter/X one, the note is longer than 500 characters or the JSON
\* is bad; no fetch, upload or append in either; no key configured, no 401.
C18_KeyThenValidation ==
    KeyBeforeValidation(BadJson \/ UrlMissing \/ UrlNotTwitter \/ NoteTooLong)

\* C18 amended: the same, with the note measured after the whitespace around
\* it is stripped.
C18_KeyThenStrippedValidation ==
    KeyBeforeValidation(BadJson \/ UrlMissing \/ UrlNotTwitter \/ StrippedNoteTooLong)

C18_Witness ==
    /\ Answered /\ SecretsRead
    /\ KeyRejected /\ RequestKey = ""
    /\ BadJson
    /\ h.resp.status = 401
    /\ Len(h.calls) = 1

IsOkUpload(c) == c.k = "upload" /\ c.result = "ok"

\* The paths of the uploads that returned, in the order of the calls.
UploadedPaths ==
    LET ok == SelectSeq(h.calls, IsOkUpload)
    IN  [j \in 1..Len(ok) |-> ok[j].path]

NotePathOf(type) ==
    IF type = "LIKED" THEN Get(h.env, "VAULT_LIKED_PATH", << "Liked", "tweets.md" >>)
    ELSE Get(h.env, "VAULT_WISHLIST_PATH", << "wishlist.md" >>)

AssetsDirOf(type) ==
    IF type = "LIKED" THEN Get(h.env, "VAULT_LIKED_ASSETS_DIR", << "Liked", "assets" >>)
    ELSE Get(h.env, "VAULT_ASSETS_DIR", << "assets" >>)

\* C19: a 200 response lists exactly the paths of the images whose upload
\* succeeded, in tweet order, then the note path; when all N uploads succeed
\* it has N+1 entries, upload was invoked once per image and append once.
C19_CommitsList ==
    h.resp.status = 200 =>
        /\ h.resp.hasCommits
        /\ h.resp.commits = UploadedPaths \o << NotePathOf(h.entryType) >>
        /\ \A j, k \in CallsOf("upload") : j < k => h.calls[j].image < h.calls[k].image
        /\ Len(UploadedPaths) = h.n =>
               /\ Len(h.resp.commits) = h.n + 1
               /\ Cardinality(CallsOf("upload")) = h.n
               /\ \A i \in 1..h.n : \E j \in CallsOf("upload") : h.calls[j].image = i
               /\ Cardinality(CallsOf("append")) = 1

C19_Witness ==
    /\ h.resp.status = 200
    /\ h.n = 2
    /\ Len(UploadedPaths) = 2
    /\ Len(h.resp.commits) = 3
    /\ h.resp.commits[3] = NotePathOf(h.entryType)

\* C20: the entry type is LIKED exactly when the request path (rawPath if
\* present, else path) contains '/liked', else BOOK; every remote write of
\* the ingestion targets the note path or a path under the assets directory
\* of its entry type.
C20_TypeRoutesWrites ==
    h.entryType # "none" =>
        LET route == h.event.route
            path == IF "rawPath" \in DOMAIN route THEN route["rawPath"]
                    ELSE IF "path" \in DOMAIN route THEN route["path"] ELSE << >>
            liked == Occurrences(path, LikedMarker) >= 1
            type == IF liked THEN "LIKED" ELSE "BOOK"
        IN  /\ h.entryType = type
            /\ \A j \in CallsOf("upload") \cup CallsOf("append") :
                   \/ h.calls[j].path = NotePathOf(type)
                   \/ /\ IsPrefix(AssetsDirOf(type), h.calls[j].path)
                      /\ Len(h.calls[j].path) > Len(AssetsDirOf(type))

C20_Witness ==
    /\ h.entryType = "LIKED"
    /\ "rawPath" \notin DOMAIN h.event.route
    /\ h.event.route["path"] = LikedMarker
    /\ h.resp.status = 200
    /\ \E j \in CallsOf("upload") : IsPrefix(<< "Liked", "assets" >>, h.calls[j].path)
    /\ \E j \in CallsOf("append") : h.calls[j].path = << "Liked", "tweets.md" >>

\* The entry an append_to_file call adds: its text, terminated.
EntryOf(p) == IF EndsWithNL(st[p].text) THEN st[p].text ELSE Append(st[p].text, NL)

\* The contents made of what the note held at first followed by complete
\* entries of calls that were made, each at most once, in some order.
WholeEntries ==
    LET called == { p \in Procs : st[p].op = "append" }
    IN  { c0 : c0 \in NoteTexts }
        \cup { c0 \o EntryOf(p) : c0 \in NoteTexts, p \in called }
        \cup { c0 \o EntryOf(pq[1]) \o EntryOf(pq[2]) :
                 c0 \in NoteTexts, pq \in { x \in called \X called : x[1] # x[2] } }

\* The note holds whole entries, never a fragment of one.
NoFragment ==
    file.present =>
        /\ Decodable(file.content)
        /\ Utf8Decode(file.content) \in WholeEntries

\* C17: under every interleaving of append_to_file calls and every pattern of
\* conflicts and failures the note holds a concatenation of complete entries,
\* never a fragment of one, and a call that failed has left the file as it was:
\* the remote committed nothing for it.
C17_AppendAtomic ==
    /\ NoFragment
    /\ \A p \in Procs :
           (st[p].op = "append" /\ Done(p) /\ ~Returned(p)) => CommitsBy(p) = 0

\* The entry as C21 lays it out: the url, the sanitized text, one embed per
\* image, an empty line and a rule.
LaidOut(entry, entryType, env, now) ==
    LET embeds == [j \in 1..Len(entry.images) |->
                      << "![[" >>
                          \o PathText(AssetsDirOf(entryType) \o << now, entry.images[j] >>)
                          \o << "]]" >>]
    IN  JoinLines(<< << entry.url >>, SanitizeText(entry.text) >> \o embeds
                      \o << << >>, << "---" >> >>)

Pieces(t) == { t[i] : i \in 1..Len(t) }

\* C21: format_wishlist_entry returns the url line, the sanitized text lines,
\* one '![[assets_dir/YYYY-MM/filename]]' line per image, an empty line and a
\* '---' line, joined by line terminators; date, title and note do not appear.
C21_EntryLayout ==
    h.pc = "formatted" =>
        /\ h.content = LaidOut(h.entry, h.entryType, h.env, h.month)
        /\ Pieces(h.content) \cap ({ h.entry.title, h.entry.note, "-01" } \ { "" }) = { }

\* The place of the first PUT after place i of a call's log (0: none).
NextPut(log, i) ==
    IF \E j \in (i + 1)..Len(log) : IsPut(log[j])
    THEN CHOOSE j \in (i + 1)..Len(log) :
             IsPut(log[j]) /\ \A k \in (i + 1)..(j - 1) : ~IsPut(log[k])
    ELSE 0

\* C22: after a conflict with attempts remaining, the next PUT carries what
\* the re-read returned: the sha read when the file is there, no sha when the
\* re-read says the file is absent.
C22_NextHashIsReread ==
    \A p \in Procs :
        LET log == st[p].log
        IN  \A i \in 1..(Len(log) - 2) :
                (/\ SawConflict(log[i])
                 /\ IsSleep(log[i + 1])
                 /\ IsRead(log[i + 2]) /\ log[i + 2].res \in { 200, 404 }
                 /\ NextPut(log, i + 2) # 0)
                => log[NextPut(log, i + 2)].sha =
                       (IF log[i + 2].res = 200 THEN log[i + 2].sha ELSE 0)

\* What the PUTs of an upload_image call carry.
UploadSendsData(p) ==
    LET log == st[p].log
    IN  (st[p].op = "upload" /\ Puts(p) # << >>) =>
            /\ Puts(p)[1].sha # 0 <=> log[1].res = 200
            /\ log[1].res = 200 => Puts(p)[1].sha = log[1].sha
            /\ \A i \in 1..Len(Puts(p)) : Puts(p)[i].content = st[p].data

\* A step in which the remote commits a PUT of p's upload_image call leaves
\* the caller's bytes at the path.
UploadCommitLeavesData(p) ==
    (st[p].op = "upload" /\ CommitsBy(p)' > CommitsBy(p)) =>
        (file'.present /\ file'.content = st[p].data)

\* C23: upload_image passes a sha on its first PUT exactly when its read found
\* the file (the sha read); every PUT of the call, retries included, carries
\* the caller's bytes and nothing of the remote content; so when a PUT of the
\* call is committed the path holds exactly those bytes, whatever was written
\* there before.
C23_UploadNeverMerges ==
    /\ [](\A p \in Procs : UploadSendsData(p))
    /\ [][\A p \in Procs : UploadCommitLeavesData(p)]_vars

C23_Witness ==
    \E p \in Procs :
        /\ st[p].op = "upload" /\ Returned(p)
        /\ st[p].log[1].res = 200
        /\ Len(Puts(p)) = 2 /\ SawConflict(Puts(p)[1]) /\ faults = 0
        /\ Puts(p)[2].sha # Puts(p)[1].sha
        /\ file.content = st[p].data

Reads(p) == SelectSeq(st[p].log, IsRead)

\* C25: for every max_retries >= 1 and whatever the remote answers, a
\* create_or_update_file call makes at most max_retries PUTs and at most
\* max_retries - 1 re-reads, can always take its next step until it has ended,
\* and ends in exactly one of: success on an accepted PUT, the conflict error
\* on a conflict at the last attempt, the transport error on a failure at the
\* last attempt.
C25_WriteTerminates ==
    LET s == st[1]
        last == s.log[Len(s.log)]
    IN  s.op = "write" =>
            /\ s.max >= 1
            /\ Len(Puts(1)) <= s.max
            /\ Len(Reads(1)) <= s.max - 1
            /\ s.pc = "put" => (s.attempt < s.max /\ ENABLED Step(1))
            /\ s.pc = "reread" => (s.attempt < s.max - 1 /\ ENABLED Step(1))
            /\ Done(1) =>
                   /\ s.result \in { "ok", "ConflictExceeded", "WriteFailed" }
                   /\ s.result = "ok" <=> (SawSuccess(last) /\ last.commit)
                   /\ s.result = "ConflictExceeded" <=>
                          (SawConflict(last) /\ last.att = s.max - 1)
                   /\ s.result = "WriteFailed" <=> (SawError(last) /\ last.att = s.max - 1)

C25_Witness ==
    /\ st[1].op = "write" /\ Done(1)
    /\ st[1].max = MaxAttempts
    /\ st[1].result = "ConflictExceeded"
    /\ Len(Puts(1)) = MaxAttempts
    /\ Len(Reads(1)) = MaxAttempts - 1

RECURSIVE TotalSecs(_)
TotalSecs(log) == IF log = << >> THEN 0 ELSE Head(log).secs + TotalSecs(Tail(log))

\* C26: between two consecutive PUTs of a call there is exactly one sleep, of
\* 2^i seconds for the failed attempt i; no sleep follows the last PUT; the
\* sleeps of a call add up to at most 2^(max_retries - 1) - 1 seconds.
C26_OneBackoffBetweenAttempts ==
    \A p \in Procs :
        LET log == st[p].log
        IN  /\ \A a \in 1..Len(log) :
                (IsPut(log[a]) /\ NextPut(log, a) # 0) =>
                    LET between == { k \in (a + 1)..(NextPut(log, a) - 1) : IsSleep(log[k]) }
                    IN  /\ Cardinality(between) = 1
                        /\ \A k \in between : log[k].secs = 2 ^ log[a].att
            /\ Done(p) =>
                   /\ \A a \in 1..Len(log) :
                          (IsPut(log[a]) /\ NextPut(log, a) = 0) =>
                              \A k \in (a + 1)..Len(log) : ~IsSleep(log[k])
                   /\ st[p].max >= 1 => TotalSecs(log) <= 2 ^ (st[p].max - 1) - 1

\* The place of the last PUT before place i of a call's log.
PrevPut(log, i) == CHOOSE j \in 1..(i - 1) : IsPut(log[j]) /\ \A k \in (j + 1)..(i - 1) : ~IsPut(log[k])

\* C27: a re-read that raises after a conflict does not end the call: it
\* happens only while attempts remain, is followed by a sleep and the next
\* attempt, which carries the sha of the attempt before; the error of a
\* re-read is never the outcome of the call.
C27_RereadErrorRetried ==
    \A p \in Procs :
        LET log == st[p].log
        IN  /\ \A i \in 2..Len(log) :
                (IsRead(log[i]) /\ log[i].res = 0) =>
                    /\ log[i].att < st[p].max - 1
                    /\ i < Len(log) /\ IsSleep(log[i + 1])
                    /\ NextPut(log, i) # 0 =>
                           /\ log[NextPut(log, i)].att = log[i].att + 1
                           /\ log[NextPut(log, i)].sha = log[PrevPut(log, i)].sha
                           /\ log[NextPut(log, i)].content = log[PrevPut(log, i)].content
            /\ (Done(p) /\ st[p].result = "FetchError") => Len(log) = 1

C27_Witness ==
    /\ st[1].op = "write" /\ Returned(1)
    /\ Len(Puts(1)) = 2
    /\ \E i \in 2..Len(st[1].log) : IsRead(st[1].log[i]) /\ st[1].log[i].res = 0
    /\ Puts(1)[2].sha = Puts(1)[1].sha
    /\ Puts(1)[2].att = 1

\* The successful uploads of the invocation, as places of the log of calls.
OkUploads == { j \in 1..Len(h.calls) : IsOkUpload(h.calls[j]) }

\* The orders in which the calls of a set can be performed.
Orders(S) == { f \in [1..Cardinality(S) -> S] : \A a, b \in 1..Cardinality(S) : a # b => f[a] # f[b] }

\* The remote store after one upload: the path holds the image's data.
Stored(store, c) == { e \in store : e[1] # c.path } \cup { << c.path, c.image >> }

\* The remote store after the uploads of an order, one after the other.
RECURSIVE StoreAfter(_, _)
StoreAfter(store, order) ==
    IF order = << >> THEN store
    ELSE StoreAfter(Stored(store, h.calls[Head(order)]), Tail(order))

Links(content) ==
    { SubSeq(content, i + 1, j - 1) :
        << i, j >> \in { x \in (1..Len(content)) \X (1..Len(content)) :
                            /\ x[1] < x[2]
                            /\ content[x[1]] = "    - [["
                            /\ content[x[2]] = "]]"
                            /\ \A k \in (x[1] + 1)..(x[2] - 1) : content[k] # "]]" } }

\* C28: every image link of the entry a successful invocation appended names
\* a path at which this invocation uploaded an image successfully.
C28_LinksAreUploaded ==
    (Answered /\ h.resp.status = 200) =>
        Links(h.content) \subseteq { PathText(h.calls[j].path) : j \in OkUploads }

\* The status codes lambda_handler answers with.
StatusCodes == { 200, 400, 401, 409, 422, 502, 500 }

\* The invocation can take its next step: the secrets are read or not, the
\* request is validated, the tweet fetched or not, the next image handled,
\* and after the last image the entry is appended at some reading of the clock.
Proceeds ==
    \/ h.pc = "secrets" /\ ENABLED (HSecretsFail \/ HCheckKey)
    \/ h.pc = "validate" /\ ENABLED HValidate
    \/ h.pc = "fetch" /\ ENABLED (HFetchFails \/ \E tweet \in Tweets, month \in Months : HFetch(tweet, month))
    \/ h.pc = "images" /\ h.i <= h.n /\ ENABLED (\E outcome \in UploadResults : HImage(outcome, TRUE))
    \/ h.pc = "images" /\ h.i > h.n /\ NotBefore(h.month) # { }

\* The calls of the invocation that failed.
FailedCalls(k) == { j \in CallsOf(k) : h.calls[j].result # "ok" }

\* C29: an invocation of lambda_handler goes on until it has answered, and it
\* answers with one of the seven status codes whichever step failed: 500 for
\* the secrets, 502 for the tweet, 409 or 500 for the append, and a failed
\* image never decides the answer.
C29_AlwaysAnswers ==
    /\ h.pc \in { "idle", "secrets", "validate", "fetch", "images", "done" }
    /\ h.pc \notin { "idle", "done" } => Proceeds
    /\ Answered =>
           /\ h.resp.status \in StatusCodes
           /\ FailedCalls("secrets") # { } => h.resp.status = 500
           /\ FailedCalls("fetch") # { } => h.resp.status = 502
           /\ FailedCalls("append") # { } => h.resp.status \in { 409, 500 }
           /\ (CallsOf("append") # { } /\ FailedCalls("append") = { }) => h.resp.status = 200

C29_Witness ==
    /\ Answered /\ h.resp.status = 500
    /\ FailedCalls("append") # { }
    /\ FailedCalls("download") # { }
    /\ FailedCalls("upload") # { }

\* C30: when the append fails after images were uploaded, the uploaded images
\* are still in the remote store, the note file has not been written, and the
\* response is a 409 or a 500 without a list of commits.
C30_NoRollback ==
    (Answered /\ FailedCalls("append") # { }) =>
        /\ \A j \in OkUploads : h.calls[j].path \in h.written
        /\ WishlistPath(h.env, h.entryType) \notin h.written
        /\ h.resp.status \in { 409, 500 }
        /\ ~h.resp.hasCommits

\* The rest of C30 without the note file: the uploaded images remain and the
\* error response lists no commits.
ImagesRemain ==
    (Answered /\ FailedCalls("append") # { }) =>
        /\ \A j \in OkUploads : h.calls[j].path \in h.written
        /\ h.resp.status \in { 409, 500 }
        /\ ~h.resp.hasCommits

\* A text with a line terminator at its end: added when it has none.
Terminated(t) == IF EndsWithNL(t) THEN t ELSE Append(t, NL)

\* The texts of a sequence, each ending with a line terminator, one after the other.
RECURSIVE ConcatTerminated(_)
ConcatTerminated(texts) ==
    IF texts = << >> THEN << >>
    ELSE Terminated(Head(texts)) \o ConcatTerminated(Tail(texts))

\* The same, where an empty text adds a terminator to an empty file only.
RECURSIVE ConcatKept(_, _)
ConcatKept(sofar, texts) ==
    IF texts = << >> THEN sofar
    ELSE ConcatKept(IF Head(texts) = << >> /\ sofar # << >> THEN sofar
                    ELSE sofar \o Terminated(Head(texts)),
                    Tail(texts))

\* The calls made so far have all returned, and the remote never failed.
AllReturned == appended # << >> /\ Returned(1) /\ faults = 0

\* The call that has returned made one PUT, its first attempt, and never slept.
FirstAttemptOnly ==
    /\ Len(Puts(1)) = 1
    /\ Puts(1)[1].att = 0 /\ SawSuccess(Puts(1)[1])
    /\ Sleeps(1) = << >>
    /\ commits = Len(appended)

\* C31 as stated: k appends in a row without a failure each succeed at their
\* first attempt without backoff, and the file then holds the k texts in call
\* order, each ending with a line terminator.
C31_ConcatOfTerminated ==
    AllReturned =>
        /\ FirstAttemptOnly
        /\ file.present /\ Utf8Decode(file.content) = ConcatTerminated(appended)

\* C31 amended: the same for texts that are not empty; an empty text adds a
\* lone terminator to an empty file and nothing to a file that holds text.
C31_SequentialAppends ==
    AllReturned =>
        /\ FirstAttemptOnly
        /\ file.present /\ Utf8Decode(file.content) = ConcatKept(<< >>, appended)
        /\ (\A i \in 1..Len(appended) : appended[i] # << >>) =>
               Utf8Decode(file.content) = ConcatTerminated(appended)

C31_Witness ==
    /\ AllReturned
    /\ Len(appended) = MaxCalls
    /\ \A i \in 1..Len(appended) : appended[i] # << >>
    /\ \E i \in 1..Len(appended) : ~EndsWithNL(appended[i])
    /\ Utf8Decode(file.content) = ConcatTerminated(appended)

=============================================================================
